---- MODULE Spec2Model ----
(***************************************************************************)
(* Runtime core of mxspp: MXObject with its two property maps, MXError,    *)
(* the MXPopulationManager, the RTTI nodes and the unique_ptr/shared_ptr   *)
(* handles (MXObjectOwned / MXObjectShared) that hold the objects.         *)
(* Every action is one whole call of the C++ code, including the           *)
(* destructors that the call runs.                                         *)
(***************************************************************************)
EXTENDS Integers, FiniteSets, Sequences, TLC

\* ---------------------------------------------------------------- bounds
MaxObj == 6        \* objects constructed in one run (addresses 1..MaxObj)
NumLocals == 2     \* caller variables of type MXObjectOwned
NumShared == 2     \* caller variables of type MXObjectShared
MaxCalls == 5      \* calls the callers make in one run
MaxVal == 2        \* operand payloads are 0..MaxVal
MaxThreadCalls == 3  \* calls the threads make in one run, all together

NULL == 0          \* nullptr
Obj == 1..MaxObj
Locals == 1..NumLocals
SLocals == 1..NumShared
Names == {"x"}           \* property_name_t values used by the callers
NoName == "-"

Threads == {"T1", "T2"}  \* threads that call into the runtime together
NoThread == "none"

\* ----------------------------------------------------------------- state
VARIABLES
    constructed,                \* objects whose MXObject constructor has run
    dtor_runs,                  \* per object, runs of ~MXObject
    class_of,                   \* per object, the class it was constructed as
    managed,                    \* per object, "owned" (unique_ptr) or "shared"
    populations,                \* MXPopulationManager::populations
    dynamic_owned_properties,   \* per object, name -> MXObjectOwned
    dynamic_shared_properties,  \* per object, name -> MXObjectShared
    alternative_,               \* MXError::alternative_
    panic_,                     \* MXError::panic_
    use_count,                  \* shared_ptr control block count
    local,                      \* the callers' MXObjectOwned variables
    slocal,                     \* the callers' MXObjectShared variables
    halted,                     \* the process has been terminated
    calls,                      \* calls made so far
    last,                       \* the property call, move or test just made
                                \* and what it returned; other calls clear it
    pc,                         \* per thread, where it is in its call
    call,                       \* per thread, the call it is making
    lock,                       \* per object, the holder of MXObject::lock
    manager_lock,               \* the holder of MXPopulationManager::lock
    instance,                   \* per get_rtti(), its static local `instance`
    type_manager                \* the MXDynamicTypeInfoManager: type_infos,
                                \* the holder of its lock, and the calls on
                                \* it in the order they took the lock

vars == <<constructed, dtor_runs, class_of, managed, populations,
          dynamic_owned_properties, dynamic_shared_properties, alternative_,
          panic_, use_count, local, slocal, halted, calls, last,
          pc, call, lock, manager_lock, instance, type_manager>>

\* ------------------------------------------------------------ RTTI nodes
\* One node per static local `instance` of a get_rtti(); a node's identity
\* is its address, written here as a string.
RttiObject == "rtti:MXObject"
RttiError == "rtti:MXError"
RttiInteger == "rtti:Integer"
RttiPopulationManager == "rtti:MXPopulationManager"
RttiDynamicTypeInfoManager == "rtti:MXDynamicTypeInfoManager"
NoRtti == "rtti:null"
TypeNodes == {RttiObject, RttiError, RttiInteger}

\* Nodes a caller builds at call sites of its own, with the names of nodes
\* that already exist: MXRuntimeTypeInfo{"MXObject", nullptr} and
\* MXRuntimeTypeInfo{"MXError", &MXObject::get_rtti()}.
RttiObjectTwin == "rtti:caller:1"
RttiErrorTwin == "rtti:caller:2"
TwinNodes == {RttiObjectTwin, RttiErrorTwin}

\* MXRuntimeTypeInfo::name
rtti_name(t) ==
    CASE t = RttiObject -> "MXObject"
      [] t = RttiError -> "MXError"
      [] t = RttiInteger -> "Integer"
      [] t = RttiPopulationManager -> "mxs::core::MXPopulationManager"
      [] t = RttiDynamicTypeInfoManager -> "mxs::core::MXDynamicTypeInfoManager"
      [] t = RttiObjectTwin -> "MXObject"
      [] t = RttiErrorTwin -> "MXError"
      [] OTHER -> ""

\* MXRuntimeTypeInfo::parent
parent(t) ==
    CASE t = RttiObject -> NoRtti
      [] t = RttiError -> RttiObject
      [] t = RttiInteger -> RttiObject
      [] t = RttiPopulationManager -> NoRtti
      [] t = RttiDynamicTypeInfoManager -> RttiObject
      [] t = RttiObjectTwin -> NoRtti
      [] t = RttiErrorTwin -> RttiObject
      [] OTHER -> NoRtti

\* Classes whose constructors the callers run.
Classes == {"MXObject", "MXError"}

\* Classes with a get_rtti() accessor.
RttiClasses == {"MXObject", "MXError", "MXInteger", "MXPopulationManager",
                "MXDynamicTypeInfoManager"}

\* T::get_rtti() for a class T: a static member function, selected by the
\* static type of the expression it is called on. The value is the address
\* of T's static local.
get_rtti(cls) ==
    CASE cls = "MXObject" -> RttiObject
      [] cls = "MXError" -> RttiError
      [] cls = "MXInteger" -> RttiInteger
      [] cls = "MXPopulationManager" -> RttiPopulationManager
      [] cls = "MXDynamicTypeInfoManager" -> RttiDynamicTypeInfoManager

\* obj->get_rtti() where obj is a const MXObject* / MXObjectOwned: the call
\* is not virtual, so it is MXObject::get_rtti() whatever obj points to.
rtti_via_base_handle(o) == get_rtti("MXObject")

\* The type and its ancestors up to the root.
RECURSIVE Ancestry(_)
Ancestry(t) == IF t = NoRtti THEN {} ELSE {t} \cup Ancestry(parent(t))

\* current_rtti == &target_rtti: two nodes are the same type when they are
\* the same address.
same_node_by_name(current_rtti, target_rtti) ==
    rtti_name(current_rtti) = rtti_name(target_rtti)

same_node(current_rtti, target_rtti) == current_rtti = target_rtti

\* is_instance_of(obj, target_rtti): walk from obj->get_rtti() along parent.
RECURSIVE walk(_, _)
walk(current_rtti, target_rtti) ==
    IF current_rtti = NoRtti THEN FALSE
    ELSE IF same_node(current_rtti, target_rtti) THEN TRUE
    ELSE walk(parent(current_rtti), target_rtti)

\* The check as it would be if the types the registry holds took part in
\* it: a registered target is accepted without a walk.
is_instance_of_or_registered(o, target_rtti) ==
    IF o = NULL THEN FALSE
    ELSE \/ walk(rtti_via_base_handle(o), target_rtti)
         \/ target_rtti \in type_manager.type_infos

is_instance_of(o, target_rtti) ==
    IF o = NULL THEN FALSE ELSE walk(rtti_via_base_handle(o), target_rtti)

EmptyMap == [n \in {} |-> NULL]

\* An operand or result of a dispatched operation, as the caller sees it.
NoOperand == [cls |-> "none", val |-> 0]
NoResult == [ok |-> FALSE, cls |-> "none", payload |-> 0, category |-> "none"]

NoCall == [op |-> "none", obj |-> NULL, name |-> NoName, val |-> NULL,
           prev |-> NULL, src |-> 0, rtti |-> NoRtti, ok |-> FALSE, seen |-> {},
           str |-> "", ret |-> NULL,
           lhs |-> NoOperand, rhs |-> NoOperand,
           static_result |-> NoResult, dynamic_result |-> NoResult]

\* A thread that is in no call.
NoThreadCall == [op |-> "none", obj |-> NULL, name |-> NoName, arg |-> NULL,
                 old |-> NULL, ret |-> NULL, found |-> FALSE, seen |-> {},
                 snapshot |-> {}, stack |-> <<>>, rtti |-> NoRtti,
                 ticket |-> 0, raw |-> {}, deref |-> "none", held |-> NULL]

\* A static local that no call has reached yet.
NotBuilt == [guard |-> "uninit", by |-> NoThread, built |-> 0,
             name |-> "", parent |-> NoRtti]

\* The MXDynamicTypeInfoManager before any call on it.
NoTypes == [type_infos |-> {}, lock |-> NoThread, applied |-> <<>>]

Live == {o \in constructed : dtor_runs[o] = 0}

\* ------------------------------------------------- MXPopulationManager
register_object(pops, o) == IF o # NULL THEN pops \cup {o} ELSE pops

unregister_object_keeps(pops, o) == pops

\* populations.erase(populations.find(obj)): erasing end() when obj is not
\* in the set, which leaves nothing of the set to rely on.
unregister_object_by_iterator(pops, o) == IF o \in pops THEN pops \ {o} ELSE {}

unregister_object(pops, o) == IF o # NULL THEN pops \ {o} ELSE pops

\* --------------------------------------------------- handles and heap
\* The heap as one value, so that the destructors can be computed.
Heap == [pop |-> populations, dtor |-> dtor_runs, cnt |-> use_count,
         own |-> dynamic_owned_properties, shr |-> dynamic_shared_properties,
         alt |-> alternative_]

\* Copy of a shared_ptr: the control block's count goes up by one.
shared_copy_uncounted(cnt, o) == cnt

shared_copy(cnt, o) == IF o = NULL THEN cnt ELSE [cnt EXCEPT ![o] = @ + 1]

\* The handles of a map, one release event each.
RECURSIVE MapEvents(_, _)
MapEvents(kind, f) ==
    IF DOMAIN f = {} THEN <<>>
    ELSE LET n == CHOOSE m \in DOMAIN f : TRUE
         IN  <<[kind |-> kind, obj |-> f[n]]>>
             \o MapEvents(kind, [m \in DOMAIN f \ {n} |-> f[m]])

\* Members destroyed when o is deleted: ~MXError releases alternative_,
\* then ~MXObject releases both maps.
MemberEvents_without_shared(o, st) ==
    <<[kind |-> "owned", obj |-> st.alt[o]]>>
    \o MapEvents("owned", st.own[o])

MemberEvents(o, st) ==
    <<[kind |-> "owned", obj |-> st.alt[o]]>>
    \o MapEvents("shared", st.shr[o])
    \o MapEvents("owned", st.own[o])

\* MXObject::~MXObject on o.
Destruct(o, st) ==
    [st EXCEPT !.pop = unregister_object(@, o),
               !.dtor[o] = @ + 1,
               !.own[o] = EmptyMap,
               !.shr[o] = EmptyMap,
               !.alt[o] = NULL]

\* Release of a sequence of handles: a unique_ptr deletes its object, a
\* shared_ptr decrements and deletes at zero; a deleted object releases
\* its members in turn.
RECURSIVE Release(_, _)
Release(ev, st) ==
    IF ev = <<>> THEN st
    ELSE LET e == Head(ev)
             o == e.obj
         IN  IF o = NULL THEN Release(Tail(ev), st)
             ELSE IF e.kind = "shared" /\ st.cnt[o] > 1
                  THEN Release(Tail(ev), [st EXCEPT !.cnt[o] = @ - 1])
             ELSE LET dec == IF e.kind = "shared"
                             THEN [st EXCEPT !.cnt[o] = @ - 1] ELSE st
                  IN  Release(MemberEvents(o, dec) \o Tail(ev), Destruct(o, dec))

\* The heap after a call; the fields of a deleted object are gone with it.
SetHeap(st) ==
    /\ populations' = st.pop
    /\ dtor_runs' = st.dtor
    /\ use_count' = st.cnt
    /\ dynamic_owned_properties' = st.own
    /\ dynamic_shared_properties' = st.shr
    /\ alternative_' = st.alt
    /\ panic_' = [o \in Obj |-> IF st.dtor[o] > 0 THEN FALSE ELSE panic_[o]]
    /\ UNCHANGED <<class_of, managed>>

\* Objects a caller can name: those its variables hold and, through
\* refer_property style borrows, the properties below them.
Range(f) == {f[n] : n \in DOMAIN f}
Children(o) == (Range(dynamic_owned_properties[o])
                \cup Range(dynamic_shared_properties[o])) \ {NULL}
RECURSIVE Reach(_, _)
Reach(S, k) ==
    LET more == S \cup UNION {Children(o) : o \in S}
    IN  IF k = 0 \/ more = S THEN S ELSE Reach(more, k - 1)
Accessible == Reach(({local[h] : h \in Locals} \cup {slocal[s] : s \in SLocals})
                    \ {NULL}, MaxObj)

Fresh == Cardinality(constructed) + 1

\* A caller keeps a new object in its first free variable.
FirstFree(holders, h) == holders[h] = NULL /\ \A k \in DOMAIN holders : k < h => holders[k] # NULL

\* ------------------------------------------------------------------ Init
Init ==
    /\ constructed = {}
    /\ dtor_runs = [o \in Obj |-> 0]
    /\ class_of = [o \in Obj |-> "MXObject"]
    /\ managed = [o \in Obj |-> "owned"]
    /\ populations = {}
    /\ dynamic_owned_properties = [o \in Obj |-> EmptyMap]
    /\ dynamic_shared_properties = [o \in Obj |-> EmptyMap]
    /\ alternative_ = [o \in Obj |-> NULL]
    /\ panic_ = [o \in Obj |-> FALSE]
    /\ use_count = [o \in Obj |-> 0]
    /\ local = [h \in Locals |-> NULL]
    /\ slocal = [s \in SLocals |-> NULL]
    /\ halted = FALSE
    /\ calls = 0
    /\ last = NoCall
    /\ pc = [th \in Threads |-> "idle"]
    /\ call = [th \in Threads |-> NoThreadCall]
    /\ lock = [o \in Obj |-> NoThread]
    /\ manager_lock = NoThread
    /\ instance = [c \in RttiClasses |-> NotBuilt]
    /\ type_manager = NoTypes

\* --------------------------------------------------------------- actions
\* Every call counts against the length of the run.
Tick == calls < MaxCalls /\ calls' = calls + 1

\* A call made while no other thread is inside the runtime: it runs from
\* entry to return with nothing in between, and every lock it takes is free
\* again when it returns.
SingleThread ==
    UNCHANGED <<pc, call, lock, manager_lock, instance, type_manager>>

\* A step that is no part of a call on the Dynamic Type Registry.
OutsideRegistry == UNCHANGED type_manager

\* local[h] = std::make_unique<MXObject>(false)
NewObject(h) ==
    /\ Tick /\ ~halted /\ SingleThread /\ Fresh \in Obj /\ FirstFree(local, h)
    /\ LET o == Fresh IN
        /\ constructed' = constructed \cup {o}
        /\ populations' = register_object(populations, o)
        /\ class_of' = [class_of EXCEPT ![o] = "MXObject"]
        /\ managed' = [managed EXCEPT ![o] = "owned"]
        /\ local' = [local EXCEPT ![h] = o]
        /\ last' = NoCall
    /\ UNCHANGED <<dtor_runs, dynamic_owned_properties,
                   dynamic_shared_properties, alternative_, panic_,
                   use_count, slocal, halted>>

\* slocal[s] = std::make_shared<MXObject>(false)
NewShared(s) ==
    /\ Tick /\ ~halted /\ SingleThread /\ Fresh \in Obj /\ FirstFree(slocal, s)
    /\ LET o == Fresh IN
        /\ constructed' = constructed \cup {o}
        /\ populations' = register_object(populations, o)
        /\ class_of' = [class_of EXCEPT ![o] = "MXObject"]
        /\ managed' = [managed EXCEPT ![o] = "shared"]
        /\ use_count' = [use_count EXCEPT ![o] = 1]
        /\ slocal' = [slocal EXCEPT ![s] = o]
        /\ last' = NoCall
    /\ UNCHANGED <<dtor_runs, dynamic_owned_properties,
                   dynamic_shared_properties, alternative_, panic_,
                   local, halted>>

\* MXError::MXError, as run by
\* local[h] = std::make_unique<MXError>(type, msg, std::move(local[a]), panic):
\* the base constructor registers the object, the members are initialised,
\* and the constructor returns. An empty local[a] passes nullptr, and the
\* error is then kept in that same variable.
MXError_ctor(h, a, panic) ==
    /\ Tick /\ ~halted /\ SingleThread /\ Fresh \in Obj
    /\ IF local[a] = NULL THEN h = a /\ FirstFree(local, h)
       ELSE h = a \/ FirstFree(local, h)
    /\ LET o == Fresh IN
        /\ constructed' = constructed \cup {o}
        /\ populations' = register_object(populations, o)
        /\ class_of' = [class_of EXCEPT ![o] = "MXError"]
        /\ managed' = [managed EXCEPT ![o] = "owned"]
        /\ alternative_' = [alternative_ EXCEPT ![o] = local[a]]
        /\ panic_' = [panic_ EXCEPT ![o] = panic]
        /\ local' = [[local EXCEPT ![a] = NULL] EXCEPT ![h] = o]
        /\ last' = NoCall
    /\ UNCHANGED <<dtor_runs, dynamic_owned_properties,
                   dynamic_shared_properties, use_count, slocal, halted>>

\* slocal[t] = slocal[s]: copy assignment of a shared_ptr.
CopyShared(s, t) ==
    /\ Tick /\ ~halted /\ SingleThread /\ s # t /\ slocal[s] # NULL
    /\ LET st == Release(<<[kind |-> "shared", obj |-> slocal[t]]>>,
                         [Heap EXCEPT !.cnt = shared_copy(@, slocal[s])])
       IN  SetHeap(st)
    /\ slocal' = [slocal EXCEPT ![t] = slocal[s]]
    /\ last' = NoCall
    /\ UNCHANGED <<constructed, local, halted>>

\* slocal[s].reset()
ReleaseShared(s) ==
    /\ Tick /\ ~halted /\ SingleThread /\ slocal[s] # NULL
    /\ SetHeap(Release(<<[kind |-> "shared", obj |-> slocal[s]]>>, Heap))
    /\ slocal' = [slocal EXCEPT ![s] = NULL]
    /\ last' = [NoCall EXCEPT !.op = "release_shared", !.obj = slocal[s],
                              !.seen = Children(slocal[s])]
    /\ UNCHANGED <<constructed, local, halted>>

\* local[h].reset()
ReleaseOwned(h) ==
    /\ Tick /\ ~halted /\ SingleThread /\ local[h] # NULL
    /\ SetHeap(Release(<<[kind |-> "owned", obj |-> local[h]]>>, Heap))
    /\ local' = [local EXCEPT ![h] = NULL]
    /\ last' = [NoCall EXCEPT !.op = "release_owned", !.obj = local[h],
                              !.seen = Children(local[h])]
    /\ UNCHANGED <<constructed, slocal, halted>>

\* std::unique_ptr move assignment: the destination takes the pointer and
\* the source is left holding nullptr.
move_leaves_source(holders, h, k) == [holders EXCEPT ![k] = holders[h]]

move(holders, h, k) == [holders EXCEPT ![k] = holders[h], ![h] = NULL]

\* local[k] = std::move(local[h])
MoveOwned(h, k) ==
    /\ Tick /\ ~halted /\ SingleThread /\ h # k /\ local[h] # NULL
    /\ SetHeap(Release(<<[kind |-> "owned", obj |-> local[k]]>>, Heap))
    /\ local' = move(local, h, k)
    /\ last' = [NoCall EXCEPT !.op = "move", !.obj = local[h], !.val = local[h],
                              !.prev = local[k], !.src = h]
    /\ UNCHANGED <<constructed, slocal, halted>>

\* dynamic_owned_properties[name] = std::move(value)
assign_owned_insert_only(props, name, value) ==
    IF name \in DOMAIN props THEN props
    ELSE [m \in DOMAIN props \cup {name} |-> IF m = name THEN value ELSE props[m]]

assign_owned(props, name, value) ==
    [m \in DOMAIN props \cup {name} |-> IF m = name THEN value ELSE props[m]]

\* dynamic_shared_properties[name] = value
assign_shared(props, name, value) ==
    [m \in DOMAIN props \cup {name} |-> IF m = name THEN value ELSE props[m]]

\* A std::unique_ptr that has been the source of a move: it holds nullptr.
\* `return value;` in register_properties hands back the parameter after
\* `dynamic_owned_properties[name] = std::move(value)` has emptied it.
moved_from_keeps(value) == value

moved_from(value) == NULL

\* t->register_properties(name, std::move(local[h])), MXObjectOwned overload:
\* the parameter takes the pointer from local[h], the map entry takes it
\* from the parameter and deletes what it held, and the emptied parameter
\* is returned.
register_properties_owned(t, name, h) ==
    /\ Tick /\ ~halted /\ SingleThread /\ t \in Accessible /\ local[h] # NULL
    /\ LET value == local[h]
           had == name \in DOMAIN dynamic_owned_properties[t]
           old == IF had THEN dynamic_owned_properties[t][name] ELSE NULL
           props == assign_owned(dynamic_owned_properties[t], name, value)
           dropped == IF props[name] = value THEN old ELSE value
       IN  /\ SetHeap(Release(<<[kind |-> "owned", obj |-> dropped]>>,
                              [Heap EXCEPT !.own[t] = props]))
           /\ local' = [local EXCEPT ![h] = NULL]
           /\ last' = [NoCall EXCEPT !.op = "register_owned", !.obj = t,
                                     !.name = name, !.val = value,
                                     !.prev = old, !.src = h, !.ok = had,
                                     !.ret = moved_from(value)]
    /\ UNCHANGED <<constructed, slocal, halted>>

\* t->register_properties(name, slocal[s]), MXObjectShared overload: the
\* parameter is a copy of slocal[s], the map entry is assigned a copy of the
\* parameter and releases what it held, and the parameter is released.
register_properties_shared(t, name, s) ==
    /\ Tick /\ ~halted /\ SingleThread /\ t \in Accessible /\ slocal[s] # NULL
    /\ LET value == slocal[s]
           had == name \in DOMAIN dynamic_shared_properties[t]
           old == IF had THEN dynamic_shared_properties[t][name] ELSE NULL
           props == assign_shared(dynamic_shared_properties[t], name, value)
           copied == [Heap EXCEPT !.cnt = shared_copy(shared_copy(@, value), value),
                                  !.shr[t] = props]
       IN  /\ SetHeap(Release(<<[kind |-> "shared", obj |-> old],
                                [kind |-> "shared", obj |-> value]>>, copied))
           /\ last' = [NoCall EXCEPT !.op = "register_shared", !.obj = t,
                                     !.name = name, !.val = value,
                                     !.prev = old, !.src = s, !.ok = had]
    /\ UNCHANGED <<constructed, local, slocal, halted>>

\* The map after erase(it).
erase_keeps(props, name) == props

erase(props, name) == [m \in DOMAIN props \ {name} |-> props[m]]

\* local[h] = t->unregister_properties(name): nullptr when the name is not
\* in the owned map, else the entry's pointer, and the entry is erased.
\* prev records what the call just before returned, when that was an
\* unregister_properties of the same name on the same object.
unregister_properties(t, name, h) ==
    /\ Tick /\ ~halted /\ SingleThread /\ t \in Accessible /\ local[h] = NULL
    /\ LET found == name \in DOMAIN dynamic_owned_properties[t]
           removed == IF found THEN dynamic_owned_properties[t][name] ELSE NULL
       IN  /\ dynamic_owned_properties' =
                 IF found
                 THEN [dynamic_owned_properties EXCEPT ![t] = erase(@, name)]
                 ELSE dynamic_owned_properties
           /\ local' = [local EXCEPT ![h] = removed]
           /\ last' = [NoCall EXCEPT !.op = "unregister", !.obj = t,
                                     !.name = name, !.val = removed,
                                     !.src = h, !.ok = found,
                                     !.prev = IF last.op = "unregister"
                                                 /\ last.obj = t
                                                 /\ last.name = name
                                              THEN last.val ELSE NULL]
    /\ UNCHANGED <<constructed, dtor_runs, class_of, managed, populations,
                   dynamic_shared_properties, alternative_, panic_, use_count,
                   slocal, halted>>

\* dynamic_owned_properties.at(name): the entry, or the std::out_of_range
\* that at() throws for a missing key.
at(props, name) ==
    IF name \in DOMAIN props THEN [found |-> TRUE, val |-> props[name]]
    ELSE [found |-> FALSE, val |-> NULL]

\* What becomes of an exception thrown inside the runtime: it unwinds to a
\* handler if a frame of the caller has one, and otherwise std::terminate
\* ends the process. The runtime itself has no handler.
terminates(thrown, caught) == thrown /\ ~caught

\* t->refer_property(name): dynamic_owned_properties.at(name), which throws
\* std::out_of_range when the owned map has no such key. ok records whether
\* a borrow was returned, val the object it designates; caught says whether
\* the caller made the call inside a try block.
refer_property(t, name, caught) ==
    /\ Tick /\ ~halted /\ SingleThread /\ t \in Accessible
    /\ LET r == at(dynamic_owned_properties[t], name)
       IN  /\ r.found => caught
           /\ last' = [NoCall EXCEPT !.op = "refer_property", !.obj = t,
                                     !.name = name, !.ok = r.found, !.val = r.val]
           /\ halted' = terminates(~r.found, caught)
    /\ UNCHANGED <<constructed, dtor_runs, class_of, managed, populations,
                   dynamic_owned_properties, dynamic_shared_properties,
                   alternative_, panic_, use_count, local, slocal>>

\* is_instance_of(local[h].get(), target_rtti)
TypeCheck(h, target_rtti) ==
    /\ Tick /\ ~halted /\ SingleThread /\ local[h] # NULL
    /\ last' = [NoCall EXCEPT !.op = "is_instance_of", !.obj = local[h],
                              !.rtti = target_rtti,
                              !.ok = is_instance_of(local[h], target_rtti)]
    /\ UNCHANGED <<constructed, dtor_runs, class_of, managed, populations,
                   dynamic_owned_properties, dynamic_shared_properties,
                   alternative_, panic_, use_count, local, slocal, halted>>

\* The caller's test of a returned object:
\* &(result_ptr->get_rtti()) == &MXError::get_rtti()
CallerCheck(h) ==
    /\ Tick /\ ~halted /\ SingleThread /\ local[h] # NULL
    /\ last' = [NoCall EXCEPT !.op = "caller_check", !.obj = local[h],
                              !.rtti = get_rtti("MXError"),
                              !.ok = (rtti_via_base_handle(local[h])
                                      = get_rtti("MXError"))]
    /\ UNCHANGED <<constructed, dtor_runs, class_of, managed, populations,
                   dynamic_owned_properties, dynamic_shared_properties,
                   alternative_, panic_, use_count, local, slocal, halted>>

\* An equals that compares what the objects are instead of where they are.
equals_by_value(this_obj, other) ==
    other # NULL /\ class_of[other] = class_of[this_obj]

\* MXObject::equals: other.get() == this
equals(this_obj, other) == other = this_obj

\* local[h]->equals(local[k]); MXError does not override equals.
Equals(h, k) ==
    /\ Tick /\ ~halted /\ SingleThread /\ local[h] # NULL
    /\ last' = [NoCall EXCEPT !.op = "equals", !.obj = local[h],
                              !.val = local[k],
                              !.ok = equals(local[h], local[k])]
    /\ UNCHANGED <<constructed, dtor_runs, class_of, managed, populations,
                   dynamic_owned_properties, dynamic_shared_properties,
                   alternative_, panic_, use_count, local, slocal, halted>>

\* Calls on the ownership handles and the property store.
Next ==
    \/ \E h \in Locals : NewObject(h)
    \/ \E s \in SLocals : NewShared(s)
    \/ \E h, a \in Locals : MXError_ctor(h, a, FALSE)
    \/ \E s, t \in SLocals : CopyShared(s, t)
    \/ \E s \in SLocals : ReleaseShared(s)
    \/ \E h \in Locals : ReleaseOwned(h)
    \/ \E h, k \in Locals : MoveOwned(h, k)
    \/ \E t \in Obj, n \in Names, h \in Locals : register_properties_owned(t, n, h)
    \/ \E t \in Obj, n \in Names, s \in SLocals : register_properties_shared(t, n, s)
    \/ \E t \in Obj, n \in Names, h \in Locals : unregister_properties(t, n, h)
    \/ \E t \in Obj, n \in Names, caught \in BOOLEAN : refer_property(t, n, caught)

Spec == Init /\ [][Next]_vars

\* Construction of objects and errors, and the type tests made on them
\* through handles of the base type.
NextTypes ==
    \/ \E h \in Locals : NewObject(h)
    \/ \E h, a \in Locals, p \in BOOLEAN : MXError_ctor(h, a, p)
    \/ \E h \in Locals : ReleaseOwned(h)
    \/ \E h, k \in Locals : MoveOwned(h, k)
    \/ \E h \in Locals, r \in TypeNodes \cup TwinNodes : TypeCheck(h, r)
    \/ \E h \in Locals : CallerCheck(h)
    \/ \E h, k \in Locals : Equals(h, k)

SpecTypes == Init /\ [][NextTypes]_vars

\* ------------------------------------- direct calls on the manager
\* MXPopulationManager::get_manager().register_object(o), called by a
\* caller itself on an object it can name, or on nullptr. ok records
\* whether o was in the set before the call.
manager_register_object(o) ==
    /\ Tick /\ ~halted /\ SingleThread /\ o \in Live \cup {NULL}
    /\ populations' = register_object(populations, o)
    /\ last' = [NoCall EXCEPT !.op = "manager_register", !.obj = o,
                              !.ok = (o \in populations)]
    /\ UNCHANGED <<constructed, dtor_runs, class_of, managed,
                   dynamic_owned_properties, dynamic_shared_properties,
                   alternative_, panic_, use_count, local, slocal, halted>>

\* A manager that deletes what it stops tracking.
manager_unregister_object_deletes(o) ==
    /\ Tick /\ ~halted /\ SingleThread /\ o \in constructed \cup {NULL}
    /\ IF o \in Live
       THEN SetHeap(Release(<<[kind |-> "owned", obj |-> o]>>, Heap))
       ELSE UNCHANGED <<dtor_runs, class_of, managed, populations,
                        dynamic_owned_properties, dynamic_shared_properties,
                        alternative_, panic_, use_count>>
    /\ last' = [NoCall EXCEPT !.op = "manager_unregister", !.obj = o,
                              !.ok = (o \in populations)]
    /\ UNCHANGED <<constructed, local, slocal, halted>>

\* MXPopulationManager::get_manager().unregister_object(o), called by a
\* caller itself with a pointer it has, live or not. prev records the
\* object of the call just before, when that was an unregister_object too.
manager_unregister_object(o) ==
    /\ Tick /\ ~halted /\ SingleThread /\ o \in constructed \cup {NULL}
    /\ populations' = unregister_object(populations, o)
    /\ last' = [NoCall EXCEPT !.op = "manager_unregister", !.obj = o,
                              !.ok = (o \in populations),
                              !.prev = IF last.op = "manager_unregister"
                                       THEN last.obj ELSE NULL]
    /\ UNCHANGED <<constructed, dtor_runs, class_of, managed,
                   dynamic_owned_properties, dynamic_shared_properties,
                   alternative_, panic_, use_count, local, slocal, halted>>

\* MXPopulationManager::get_manager().repr(): the dump. It walks
\* populations and calls repr() on each object; seen is the set of objects
\* the returned string lists.
manager_repr ==
    /\ Tick /\ ~halted /\ SingleThread
    /\ last' = [NoCall EXCEPT !.op = "dump", !.seen = populations]
    /\ UNCHANGED <<constructed, dtor_runs, class_of, managed, populations,
                   dynamic_owned_properties, dynamic_shared_properties,
                   alternative_, panic_, use_count, local, slocal, halted>>

\* Objects made and released by their handles, and the manager called
\* directly in between.
NextManager ==
    \/ \E h \in Locals : NewObject(h)
    \/ \E s \in SLocals : NewShared(s)
    \/ \E s, t \in SLocals : CopyShared(s, t)
    \/ \E s \in SLocals : ReleaseShared(s)
    \/ \E h \in Locals : ReleaseOwned(h)
    \/ \E o \in Obj \cup {NULL} : manager_register_object(o)
    \/ \E o \in Obj \cup {NULL} : manager_unregister_object(o)
    \/ manager_repr

SpecManager == Init /\ [][NextManager]_vars
\* ------------------------------------------------- calls from threads
\* The heap the main thread has built before it starts the others: two
\* objects held through MXObjectShared variables, each with an owned
\* property "x".
ThreadsHeap ==
    /\ constructed = {1, 2, 3, 4}
    /\ dtor_runs = [o \in Obj |-> 0]
    /\ class_of = [o \in Obj |-> "MXObject"]
    /\ managed = [o \in Obj |-> IF o \in {1, 2} THEN "shared" ELSE "owned"]
    /\ populations = {1, 2, 3, 4}
    /\ dynamic_owned_properties =
          [o \in Obj |-> IF o \in {1, 2} THEN [n \in {"x"} |-> o + 2]
                         ELSE EmptyMap]
    /\ dynamic_shared_properties = [o \in Obj |-> EmptyMap]
    /\ alternative_ = [o \in Obj |-> NULL]
    /\ panic_ = [o \in Obj |-> FALSE]
    /\ use_count = [o \in Obj |-> IF o \in {1, 2} THEN 1 ELSE 0]
    /\ local = [h \in Locals |-> NULL]
    /\ slocal = [s \in SLocals |-> IF s \in {1, 2} THEN s ELSE NULL]
    /\ halted = FALSE
    /\ calls = 0
    /\ last = NoCall
    /\ pc = [th \in Threads |-> "idle"]
    /\ call = [th \in Threads |-> NoThreadCall]
    /\ lock = [o \in Obj |-> NoThread]
    /\ manager_lock = NoThread
    /\ type_manager = NoTypes

InitThreads == ThreadsHeap /\ instance = [c \in RttiClasses |-> NotBuilt]

\* std::scoped_lock guard(lock): the constructor returns once no thread
\* holds the mutex.
scoped_lock_enters_at_once(holder) == TRUE

scoped_lock_enters(holder) == holder = NoThread

\* Objects the threads were given pointers to.
Targets == {slocal[s] : s \in SLocals} \ {NULL}

\* Constructors that threads have begun and that have not yet registered
\* their object.
PendingCtors == {th \in Threads : pc[th] \in {"ctor_lock", "ctor_insert"}}

\* Thread th begins a call; op and the arguments are the caller's.
Begin(th, op, t, n, first) ==
    /\ ~halted /\ OutsideRegistry /\ pc[th] = "idle" /\ calls < MaxThreadCalls
    /\ calls' = calls + 1
    /\ call' = [call EXCEPT ![th] = [NoThreadCall EXCEPT !.op = op, !.obj = t,
                                                         !.name = n]]
    /\ pc' = [pc EXCEPT ![th] = first]
    /\ UNCHANGED <<constructed, dtor_runs, class_of, managed, populations,
                   dynamic_owned_properties, dynamic_shared_properties,
                   alternative_, panic_, use_count, local, slocal, halted,
                   last, lock, manager_lock, instance>>

\* t->register_properties(name, std::make_unique<MXObject>(false)): the
\* argument is constructed first.
thread_register_properties(th, t, n) ==
    /\ t \in Targets
    /\ Cardinality(constructed) + Cardinality(PendingCtors) < MaxObj
    /\ Begin(th, "register", t, n, "ctor_lock")

\* t->unregister_properties(name); the returned handle is a temporary.
thread_unregister_properties(th, t, n) ==
    /\ t \in Targets
    /\ Begin(th, "unregister", t, n, "obj_lock")

\* t->refer_property(name)
thread_refer_property(th, t, n) ==
    /\ t \in Targets
    /\ Begin(th, "refer", t, n, "obj_lock")

\* MXPopulationManager::get_manager().repr()
thread_repr(th) == Begin(th, "dump", NULL, NoName, "repr_lock")

\* The class whose constructor a call runs, and where the thread goes once
\* the MXObject base constructor has returned: a plain MXObject is complete
\* and becomes the argument of register_properties; an MXError still has
\* its own members to initialise; a packed-argument object is passed on to
\* the foreign wrapper.
constructs(op) ==
    CASE op = "new_error" -> "MXError"
      [] op = "variadic" -> "MXFFICallArgv"
      [] OTHER -> "MXObject"

after_base_ctor(op) ==
    CASE op = "new_error" -> "derived_ctor"
      [] op = "variadic" -> "ffi_call"
      [] OTHER -> "obj_lock"

\* MXObject::MXObject -> register_object: std::scoped_lock guard(lock)
ctor_lock(th) ==
    /\ ~halted /\ OutsideRegistry /\ pc[th] = "ctor_lock"
    /\ scoped_lock_enters(manager_lock)
    /\ manager_lock' = th
    /\ pc' = [pc EXCEPT ![th] = "ctor_insert"]
    /\ UNCHANGED <<constructed, dtor_runs, class_of, managed, populations,
                   dynamic_owned_properties, dynamic_shared_properties,
                   alternative_, panic_, use_count, local, slocal, halted,
                   calls, last, call, lock, instance>>

\* register_object: populations.insert(obj), the guard is released and the
\* base constructor returns; the new object is kept in the call's arg.
ctor_insert(th) ==
    /\ ~halted /\ OutsideRegistry /\ pc[th] = "ctor_insert"
    /\ LET o == Fresh IN
        /\ constructed' = constructed \cup {o}
        /\ populations' = register_object(populations, o)
        /\ class_of' = [class_of EXCEPT ![o] = constructs(call[th].op)]
        /\ managed' = [managed EXCEPT ![o] = "owned"]
        /\ call' = [call EXCEPT ![th].arg = o]
    /\ manager_lock' = NoThread
    /\ pc' = [pc EXCEPT ![th] = after_base_ctor(call[th].op)]
    /\ UNCHANGED <<dtor_runs, dynamic_owned_properties,
                   dynamic_shared_properties, alternative_, panic_, use_count,
                   local, slocal, halted, calls, last, lock, instance>>

\* std::scoped_lock guard(lock) at the head of register_properties,
\* unregister_properties and refer_property.
obj_lock(th) ==
    /\ ~halted /\ OutsideRegistry /\ pc[th] = "obj_lock"
    /\ scoped_lock_enters(lock[call[th].obj])
    /\ lock' = [lock EXCEPT ![call[th].obj] = th]
    /\ pc' = [pc EXCEPT ![th] =
                 CASE call[th].op = "register" -> "assign"
                   [] call[th].op = "unregister" -> "find"
                   [] OTHER -> "at"]
    /\ UNCHANGED <<constructed, dtor_runs, class_of, managed, populations,
                   dynamic_owned_properties, dynamic_shared_properties,
                   alternative_, panic_, use_count, local, slocal, halted,
                   calls, last, call, manager_lock, instance>>

\* dynamic_owned_properties[name] = std::move(value): the entry takes the
\* argument; what it held is deleted next, still under the object's lock.
thread_assign(th) ==
    /\ ~halted /\ OutsideRegistry /\ pc[th] = "assign"
    /\ LET t == call[th].obj
           n == call[th].name
           had == n \in DOMAIN dynamic_owned_properties[t]
           old == IF had THEN dynamic_owned_properties[t][n] ELSE NULL
       IN  /\ dynamic_owned_properties' =
                 [dynamic_owned_properties EXCEPT
                     ![t] = assign_owned(@, n, call[th].arg)]
           /\ call' = [call EXCEPT ![th].old = old, ![th].found = had]
           /\ pc' = [pc EXCEPT ![th] = IF old # NULL THEN "dtor_lock"
                                       ELSE "unlock"]
    /\ UNCHANGED <<constructed, dtor_runs, class_of, managed, populations,
                   dynamic_shared_properties, alternative_, panic_, use_count,
                   local, slocal, halted, calls, last, lock, manager_lock,
                   instance>>

\* find, std::move(it->second) and erase(it) of unregister_properties.
thread_find(th) ==
    /\ ~halted /\ OutsideRegistry /\ pc[th] = "find"
    /\ LET t == call[th].obj
           n == call[th].name
           found == n \in DOMAIN dynamic_owned_properties[t]
           removed == IF found THEN dynamic_owned_properties[t][n] ELSE NULL
       IN  /\ dynamic_owned_properties' =
                 IF found
                 THEN [dynamic_owned_properties EXCEPT ![t] = erase(@, n)]
                 ELSE dynamic_owned_properties
           /\ call' = [call EXCEPT ![th].ret = removed, ![th].found = found]
    /\ pc' = [pc EXCEPT ![th] = "unlock"]
    /\ UNCHANGED <<constructed, dtor_runs, class_of, managed, populations,
                   dynamic_shared_properties, alternative_, panic_, use_count,
                   local, slocal, halted, calls, last, lock, manager_lock,
                   instance>>

\* dynamic_owned_properties.at(name) of refer_property; a std::out_of_range
\* either unwinds to the caller's handler, which releases the guard on the
\* way, or ends the process.
thread_at(th, caught) ==
    /\ ~halted /\ OutsideRegistry /\ pc[th] = "at"
    /\ LET r == at(dynamic_owned_properties[call[th].obj], call[th].name)
       IN  /\ r.found => caught
           /\ call' = [call EXCEPT ![th].ret = r.val, ![th].found = r.found]
           /\ halted' = terminates(~r.found, caught)
    /\ pc' = [pc EXCEPT ![th] = "unlock"]
    /\ UNCHANGED <<constructed, dtor_runs, class_of, managed, populations,
                   dynamic_owned_properties, dynamic_shared_properties,
                   alternative_, panic_, use_count, local, slocal, calls,
                   last, lock, manager_lock, instance>>

\* MXObject::~MXObject -> unregister_object: std::scoped_lock guard(lock),
\* for the value a registration replaced (inside register_properties) or
\* for the temporary an unregister_properties returned (after it).
dtor_lock(th) ==
    /\ ~halted /\ OutsideRegistry /\ pc[th] \in {"dtor_lock", "tmp_dtor_lock"}
    /\ scoped_lock_enters(manager_lock)
    /\ manager_lock' = th
    /\ pc' = [pc EXCEPT ![th] = IF @ = "dtor_lock" THEN "dtor_erase"
                                ELSE "tmp_dtor_erase"]
    /\ UNCHANGED <<constructed, dtor_runs, class_of, managed, populations,
                   dynamic_owned_properties, dynamic_shared_properties,
                   alternative_, panic_, use_count, local, slocal, halted,
                   calls, last, call, lock, instance>>

\* unregister_object: populations.erase(obj), the guard is released, and
\* the rest of the object goes.
dtor_erase(th) ==
    /\ ~halted /\ OutsideRegistry /\ pc[th] \in {"dtor_erase", "tmp_dtor_erase"}
    /\ LET o == IF pc[th] = "dtor_erase" THEN call[th].old ELSE call[th].ret
       IN  SetHeap(Release(<<[kind |-> "owned", obj |-> o]>>, Heap))
    /\ manager_lock' = NoThread
    /\ pc' = [pc EXCEPT ![th] = IF @ = "dtor_erase" THEN "unlock" ELSE "idle"]
    /\ UNCHANGED <<constructed, local, slocal, halted, calls, last, call,
                   lock, instance>>

\* The guard of the property call goes out of scope and the call returns;
\* a handle returned by unregister_properties and not kept is destroyed.
unlock(th) ==
    /\ ~halted /\ OutsideRegistry /\ pc[th] = "unlock"
    /\ lock' = [lock EXCEPT ![call[th].obj] = NoThread]
    /\ pc' = [pc EXCEPT ![th] =
                 IF call[th].op = "unregister" /\ call[th].ret # NULL
                 THEN "tmp_dtor_lock" ELSE "idle"]
    /\ UNCHANGED <<constructed, dtor_runs, class_of, managed, populations,
                   dynamic_owned_properties, dynamic_shared_properties,
                   alternative_, panic_, use_count, local, slocal, halted,
                   calls, last, call, manager_lock, instance>>

\* std::scoped_lock(lock); -- a temporary, gone at the semicolon, so that
\* the loop of repr() runs with the mutex free.
repr_lock_temporary(th) ==
    /\ ~halted /\ OutsideRegistry /\ pc[th] = "repr_lock"
    /\ scoped_lock_enters(manager_lock)
    /\ call' = [call EXCEPT ![th].snapshot = populations, ![th].seen = {}]
    /\ pc' = [pc EXCEPT ![th] = "repr_visit"]
    /\ UNCHANGED <<constructed, dtor_runs, class_of, managed, populations,
                   dynamic_owned_properties, dynamic_shared_properties,
                   alternative_, panic_, use_count, local, slocal, halted,
                   calls, last, lock, manager_lock, instance>>

\* std::scoped_lock guard(lock) at the head of MXPopulationManager::repr.
\* snapshot keeps what populations was at this instant.
repr_lock(th) ==
    /\ ~halted /\ OutsideRegistry /\ pc[th] = "repr_lock"
    /\ scoped_lock_enters(manager_lock)
    /\ manager_lock' = th
    /\ call' = [call EXCEPT ![th].snapshot = populations, ![th].seen = {}]
    /\ pc' = [pc EXCEPT ![th] = "repr_visit"]
    /\ UNCHANGED <<constructed, dtor_runs, class_of, managed, populations,
                   dynamic_owned_properties, dynamic_shared_properties,
                   alternative_, panic_, use_count, local, slocal, halted,
                   calls, last, lock, instance>>

\* o is registered but its most-derived constructor has not returned yet:
\* an MXError whose MXObject base has been constructed and whose own
\* members have not.
UnderConstruction(o) ==
    \E th \in Threads : /\ call[th].op = "new_error" /\ call[th].arg = o
                        /\ pc[th] = "derived_ctor"

\* o is still registered though its destructor has been entered: the
\* thread destroying it has yet to get through unregister_object.
BeingDestroyed(o) ==
    \E th \in Threads :
        \/ pc[th] \in {"dtor_lock", "dtor_erase"} /\ call[th].old = o
        \/ pc[th] \in {"tmp_dtor_lock", "tmp_dtor_erase"} /\ call[th].ret = o

\* {o} if o is not a complete object, {} if it is.
Incomplete(o) == IF UnderConstruction(o) \/ BeingDestroyed(o) THEN {o} ELSE {}

\* One turn of the loop with a repr() that takes the lock of the object
\* it is called on.
repr_visit_locking_object(th) ==
    /\ ~halted /\ OutsideRegistry /\ pc[th] = "repr_visit"
    /\ populations \ call[th].seen # {}
    /\ LET rest == populations \ call[th].seen
           o == CHOOSE q \in rest : \A r \in rest : q <= r
       IN  /\ scoped_lock_enters(lock[o])
           /\ call' = [call EXCEPT ![th].seen = @ \cup {o},
                                   ![th].raw = @ \cup Incomplete(o)]
    /\ UNCHANGED <<constructed, dtor_runs, class_of, managed, populations,
                   dynamic_owned_properties, dynamic_shared_properties,
                   alternative_, panic_, use_count, local, slocal, halted,
                   calls, last, pc, lock, manager_lock, instance>>

\* One turn of for (const auto *obj : populations): obj->repr() goes into
\* the string. The set is walked lowest address first. raw keeps the
\* objects that were not complete when repr() was called on them.
repr_visit(th) ==
    /\ ~halted /\ OutsideRegistry /\ pc[th] = "repr_visit"
    /\ populations \ call[th].seen # {}
    /\ LET rest == populations \ call[th].seen
           o == CHOOSE q \in rest : \A r \in rest : q <= r
       IN  call' = [call EXCEPT ![th].seen = @ \cup {o},
                                ![th].raw = @ \cup Incomplete(o)]
    /\ UNCHANGED <<constructed, dtor_runs, class_of, managed, populations,
                   dynamic_owned_properties, dynamic_shared_properties,
                   alternative_, panic_, use_count, local, slocal, halted,
                   calls, last, pc, lock, manager_lock, instance>>

\* The loop is over: repr() returns its string and the guard is released.
repr_return(th) ==
    /\ ~halted /\ OutsideRegistry /\ pc[th] = "repr_visit"
    /\ populations \ call[th].seen = {}
    /\ manager_lock' = NoThread
    /\ pc' = [pc EXCEPT ![th] = "idle"]
    /\ UNCHANGED <<constructed, dtor_runs, class_of, managed, populations,
                   dynamic_owned_properties, dynamic_shared_properties,
                   alternative_, panic_, use_count, local, slocal, halted,
                   calls, last, call, lock, instance>>

\* Threads calling the property functions and the dump at the same time.
NextThreads ==
    \E th \in Threads :
        \/ \E t \in Obj, n \in Names : thread_register_properties(th, t, n)
        \/ \E t \in Obj, n \in Names : thread_unregister_properties(th, t, n)
        \/ \E t \in Obj, n \in Names : thread_refer_property(th, t, n)
        \/ thread_repr(th)
        \/ ctor_lock(th)
        \/ ctor_insert(th)
        \/ obj_lock(th)
        \/ thread_assign(th)
        \/ thread_find(th)
        \/ \E caught \in BOOLEAN : thread_at(th, caught)
        \/ dtor_lock(th)
        \/ dtor_erase(th)
        \/ unlock(th)
        \/ repr_lock(th)
        \/ repr_visit(th)
        \/ repr_return(th)

SpecThreads == InitThreads /\ [][NextThreads]_vars

\* ------------------------------------------------- the get_rtti() calls
\* static MXRuntimeTypeInfo instance{name, parent}: what each accessor
\* gives its static local; parent names the class whose accessor the
\* initializer calls, "none" standing for nullptr.
initializer(cls) ==
    CASE cls = "MXObject" -> [name |-> "MXObject", parent |-> "none"]
      [] cls = "MXError" -> [name |-> "MXError", parent |-> "MXObject"]
      [] cls = "MXInteger" -> [name |-> "Integer", parent |-> "MXObject"]
      [] cls = "MXPopulationManager" ->
            [name |-> "mxs::core::MXPopulationManager", parent |-> "none"]
      [] cls = "MXDynamicTypeInfoManager" ->
            [name |-> "mxs::core::MXDynamicTypeInfoManager",
             parent |-> "MXObject"]

\* A block-scope static is initialised by the first thread whose control
\* passes through its declaration; a thread arriving while that goes on
\* waits for it to complete.
first_caller_unguarded(inst) == inst.guard # "done"

first_caller(inst) == inst.guard = "uninit"

\* Thread th calls cls::get_rtti(). stack holds the accessors the thread is
\* in, innermost first.
rtti_call(th, cls) ==
    /\ ~halted /\ OutsideRegistry /\ pc[th] = "idle" /\ calls < MaxThreadCalls
    /\ calls' = calls + 1
    /\ call' = [call EXCEPT ![th] = [NoThreadCall EXCEPT !.op = "get_rtti",
                                                         !.name = cls,
                                                         !.stack = <<cls>>]]
    /\ pc' = [pc EXCEPT ![th] = "rtti_enter"]
    /\ UNCHANGED <<constructed, dtor_runs, class_of, managed, populations,
                   dynamic_owned_properties, dynamic_shared_properties,
                   alternative_, panic_, use_count, local, slocal, halted,
                   last, lock, manager_lock, instance>>

\* Control reaches the declaration of the static local: it is already
\* initialised, or this thread starts to initialise it, which for a type
\* with a parent begins with the call of the parent's accessor.
rtti_enter(th) ==
    /\ ~halted /\ OutsideRegistry /\ pc[th] = "rtti_enter"
    /\ LET c == Head(call[th].stack)
           up == initializer(c).parent
       IN  IF instance[c].guard = "done"
           THEN /\ pc' = [pc EXCEPT ![th] = "rtti_return"]
                /\ UNCHANGED <<call, instance>>
           ELSE /\ first_caller(instance[c])
                /\ instance' = [instance EXCEPT ![c].guard = "running",
                                                ![c].by = th]
                /\ IF up = "none"
                   THEN /\ pc' = [pc EXCEPT ![th] = "rtti_construct"]
                        /\ UNCHANGED call
                   ELSE /\ call' = [call EXCEPT ![th].stack = <<up>> \o @]
                        /\ UNCHANGED pc
    /\ UNCHANGED <<constructed, dtor_runs, class_of, managed, populations,
                   dynamic_owned_properties, dynamic_shared_properties,
                   alternative_, panic_, use_count, local, slocal, halted,
                   calls, last, lock, manager_lock>>

\* The constructor of the static local runs and the initialisation is
\* marked complete.
rtti_construct(th) ==
    /\ ~halted /\ OutsideRegistry /\ pc[th] = "rtti_construct"
    /\ LET c == Head(call[th].stack)
           up == initializer(c).parent
       IN  instance' = [instance EXCEPT
               ![c] = [guard |-> "done", by |-> NoThread,
                       built |-> instance[c].built + 1,
                       name |-> initializer(c).name,
                       parent |-> IF up = "none" THEN NoRtti
                                  ELSE get_rtti(up)]]
    /\ pc' = [pc EXCEPT ![th] = "rtti_return"]
    /\ UNCHANGED <<constructed, dtor_runs, class_of, managed, populations,
                   dynamic_owned_properties, dynamic_shared_properties,
                   alternative_, panic_, use_count, local, slocal, halted,
                   calls, last, call, lock, manager_lock>>

\* return instance: the accessor returns the address of its static local,
\* to the caller or to the initializer that asked for its parent.
rtti_return(th) ==
    /\ ~halted /\ OutsideRegistry /\ pc[th] = "rtti_return"
    /\ LET c == Head(call[th].stack)
           outer == Tail(call[th].stack)
       IN  /\ call' = [call EXCEPT ![th].stack = outer,
                                   ![th].rtti = get_rtti(c)]
           /\ pc' = [pc EXCEPT ![th] = IF outer = <<>> THEN "idle"
                                       ELSE "rtti_construct"]
    /\ UNCHANGED <<constructed, dtor_runs, class_of, managed, populations,
                   dynamic_owned_properties, dynamic_shared_properties,
                   alternative_, panic_, use_count, local, slocal, halted,
                   calls, last, lock, manager_lock, instance>>

\* Threads calling the accessors at the same time.
NextRtti ==
    \E th \in Threads :
        \/ \E cls \in RttiClasses : rtti_call(th, cls)
        \/ rtti_enter(th)
        \/ rtti_construct(th)
        \/ rtti_return(th)

SpecRtti == Init /\ [][NextRtti]_vars

\* ------------------------------------------------------------------ repr
\* Classes derived from MXObject that declare no repr() of their own:
\* MXFunction (which declares no get_rtti() either) and the MXInteger of the
\* RTTI rules (which declares its own get_rtti()).
DerivedClasses == {"MXFunction", "MXInteger"}

\* local[h] = std::make_unique<T>(...) for such a class T: the MXObject
\* base constructor registers the object.
NewDerived(h, cls) ==
    /\ Tick /\ ~halted /\ SingleThread /\ Fresh \in Obj /\ FirstFree(local, h)
    /\ LET o == Fresh IN
        /\ constructed' = constructed \cup {o}
        /\ populations' = register_object(populations, o)
        /\ class_of' = [class_of EXCEPT ![o] = cls]
        /\ managed' = [managed EXCEPT ![o] = "owned"]
        /\ local' = [local EXCEPT ![h] = o]
        /\ last' = NoCall
    /\ UNCHANGED <<dtor_runs, dynamic_owned_properties,
                   dynamic_shared_properties, alternative_, panic_,
                   use_count, slocal, halted>>

\* MXObject::repr(): this->get_rtti().name. Inside a member of MXObject the
\* static get_rtti() is MXObject's, whatever the object was constructed as.
MXObject_repr(o) == rtti_name(rtti_via_base_handle(o))

\* MXError::repr(): "{error type}(panic={}): {message}".
MXError_repr(o) ==
    IF panic_[o] THEN "Error(panic=true): message"
    ELSE "Error(panic=false): message"

\* obj->repr(): a virtual call, so the final overrider of the object's class
\* runs; MXError is the only class here that overrides it.
repr(o) == IF class_of[o] = "MXError" THEN MXError_repr(o) ELSE MXObject_repr(o)

\* local[h]->repr()
Repr(h) ==
    /\ Tick /\ ~halted /\ SingleThread /\ local[h] # NULL
    /\ last' = [NoCall EXCEPT !.op = "repr", !.obj = local[h],
                              !.str = repr(local[h])]
    /\ UNCHANGED <<constructed, dtor_runs, class_of, managed, populations,
                   dynamic_owned_properties, dynamic_shared_properties,
                   alternative_, panic_, use_count, local, slocal, halted>>

NextRepr ==
    \/ \E h \in Locals : NewObject(h)
    \/ \E h \in Locals, cls \in DerivedClasses : NewDerived(h, cls)
    \/ \E h, a \in Locals, p \in BOOLEAN : MXError_ctor(h, a, p)
    \/ \E h \in Locals : ReleaseOwned(h)
    \/ \E h, k \in Locals : MoveOwned(h, k)
    \/ \E h \in Locals : Repr(h)

SpecRepr == Init /\ [][NextRepr]_vars

\* ---------------------------------- calls on the Dynamic Type Registry
\* The static local of cls::get_rtti() after its first call.
Built(cls) ==
    [guard |-> "done", by |-> NoThread, built |-> 1,
     name |-> initializer(cls).name,
     parent |-> IF initializer(cls).parent = "none" THEN NoRtti
                ELSE get_rtti(initializer(cls).parent)]

\* The main thread has called every accessor once before it starts the
\* others, so that each of them has node addresses to pass around.
InitRegistry == ThreadsHeap /\ instance = [c \in RttiClasses |-> Built(c)]

\* Nodes the threads register and unregister.
DynamicTypes == {RttiError, RttiInteger}

\* type_infos.insert(obj) and type_infos.erase(obj) on a std::unordered_set.
insert(type_infos, obj) == type_infos \cup {obj}
erase_type(type_infos, obj) == type_infos \ {obj}

\* Thread th calls register_newtype(obj) or unregister_type(obj) on the
\* manager; ticket is the position of the call among all calls made.
registry_call(th, op, obj) ==
    /\ ~halted /\ pc[th] = "idle" /\ calls < MaxThreadCalls
    /\ obj \in DynamicTypes
    /\ calls' = calls + 1
    /\ call' = [call EXCEPT ![th] = [NoThreadCall EXCEPT !.op = op,
                                                         !.rtti = obj,
                                                         !.ticket = calls + 1]]
    /\ pc' = [pc EXCEPT ![th] = "type_lock"]
    /\ UNCHANGED <<constructed, dtor_runs, class_of, managed, populations,
                   dynamic_owned_properties, dynamic_shared_properties,
                   alternative_, panic_, use_count, local, slocal, halted,
                   last, lock, manager_lock, instance, type_manager>>

register_newtype(th, obj) == registry_call(th, "register_newtype", obj)

unregister_type(th, obj) == registry_call(th, "unregister_type", obj)

\* std::scoped_lock guard(this->lock)
type_lock(th) ==
    /\ ~halted /\ pc[th] = "type_lock"
    /\ scoped_lock_enters(type_manager.lock)
    /\ type_manager' = [type_manager EXCEPT !.lock = th]
    /\ pc' = [pc EXCEPT ![th] = "type_read"]
    /\ UNCHANGED <<constructed, dtor_runs, class_of, managed, populations,
                   dynamic_owned_properties, dynamic_shared_properties,
                   alternative_, panic_, use_count, local, slocal, halted,
                   calls, last, call, lock, manager_lock, instance>>

\* insert and erase are not atomic: each reads the buckets of the set ...
type_read(th) ==
    /\ ~halted /\ pc[th] = "type_read"
    /\ call' = [call EXCEPT ![th].snapshot = type_manager.type_infos]
    /\ pc' = [pc EXCEPT ![th] = "type_write"]
    /\ UNCHANGED <<constructed, dtor_runs, class_of, managed, populations,
                   dynamic_owned_properties, dynamic_shared_properties,
                   alternative_, panic_, use_count, local, slocal, halted,
                   calls, last, lock, manager_lock, instance, type_manager>>

\* ... and then writes them back changed; the guard is released and the
\* call returns. Calls take effect in the order they are listed in applied.
type_write(th) ==
    /\ ~halted /\ pc[th] = "type_write"
    /\ type_manager' =
          [type_infos |-> IF call[th].op = "register_newtype"
                          THEN insert(call[th].snapshot, call[th].rtti)
                          ELSE erase_type(call[th].snapshot, call[th].rtti),
           lock |-> NoThread,
           applied |-> Append(type_manager.applied,
                              [by |-> th, op |-> call[th].op,
                               rtti |-> call[th].rtti,
                               ticket |-> call[th].ticket])]
    /\ pc' = [pc EXCEPT ![th] = "idle"]
    /\ UNCHANGED <<constructed, dtor_runs, class_of, managed, populations,
                   dynamic_owned_properties, dynamic_shared_properties,
                   alternative_, panic_, use_count, local, slocal, halted,
                   calls, last, call, lock, manager_lock, instance>>

\* Thread th runs is_instance_of(o, target_rtti): no lock is taken, the
\* nodes are only read.
thread_is_instance_of(th, o, target_rtti) ==
    /\ ~halted /\ pc[th] = "idle" /\ calls < MaxThreadCalls
    /\ o \in Targets
    /\ calls' = calls + 1
    /\ call' = [call EXCEPT ![th] =
                   [NoThreadCall EXCEPT !.op = "is_instance_of", !.obj = o,
                                        !.rtti = target_rtti,
                                        !.ticket = calls + 1,
                                        !.found = is_instance_of(o, target_rtti)]]
    /\ UNCHANGED <<constructed, dtor_runs, class_of, managed, populations,
                   dynamic_owned_properties, dynamic_shared_properties,
                   alternative_, panic_, use_count, local, slocal, halted,
                   last, pc, lock, manager_lock, instance, type_manager>>

\* Threads calling the registry and checking types at the same time.
NextRegistry ==
    \E th \in Threads :
        \/ \E obj \in TypeNodes : register_newtype(th, obj)
        \/ \E obj \in TypeNodes : unregister_type(th, obj)
        \/ type_lock(th)
        \/ type_read(th)
        \/ type_write(th)
        \/ \E o \in Obj, t \in TypeNodes : thread_is_instance_of(th, o, t)

SpecRegistry == InitRegistry /\ [][NextRegistry]_vars

\* ------------------------------------------- variadic foreign calls
\* The code generated for a call of a foreign function declared with argv:
\* the arguments after the fixed ones are gathered into a vector of
\* MXObject*, and the MXFFICallArgv constructor is called with it. seen is
\* that vector.
thread_variadic_call(th, argv) ==
    /\ argv \subseteq Targets
    /\ Cardinality(constructed) + Cardinality(PendingCtors) < MaxObj
    /\ ~halted /\ OutsideRegistry /\ pc[th] = "idle"
    /\ calls < MaxThreadCalls
    /\ calls' = calls + 1
    /\ call' = [call EXCEPT ![th] = [NoThreadCall EXCEPT !.op = "variadic",
                                                         !.seen = argv]]
    /\ pc' = [pc EXCEPT ![th] = "ctor_lock"]
    /\ UNCHANGED <<constructed, dtor_runs, class_of, managed, populations,
                   dynamic_owned_properties, dynamic_shared_properties,
                   alternative_, panic_, use_count, local, slocal, halted,
                   last, lock, manager_lock, instance>>

\* The vector goes into the new MXFFICallArgv, and the wrapper is called
\* with the fixed argument and the pointer to the MXFFICallArgv: from here
\* on foreign code holds that pointer.
ffi_call(th) ==
    /\ ~halted /\ OutsideRegistry /\ pc[th] = "ffi_call"
    /\ call' = [call EXCEPT ![th].held = call[th].arg]
    /\ pc' = [pc EXCEPT ![th] = "ffi_wrapper"]
    /\ UNCHANGED <<constructed, dtor_runs, class_of, managed, populations,
                   dynamic_owned_properties, dynamic_shared_properties,
                   alternative_, panic_, use_count, local, slocal, halted,
                   calls, last, lock, manager_lock, instance>>

\* Inside the wrapper: cast<MXFFICallArgv>(...) on the pointer it was
\* given, to read the packed arguments.
ffi_wrapper(th) ==
    /\ ~halted /\ OutsideRegistry /\ pc[th] = "ffi_wrapper"
    /\ call' = [call EXCEPT
                   ![th].found = /\ call[th].held \in Live
                                 /\ class_of[call[th].held] = "MXFFICallArgv"]
    /\ pc' = [pc EXCEPT ![th] = "ffi_return"]
    /\ UNCHANGED <<constructed, dtor_runs, class_of, managed, populations,
                   dynamic_owned_properties, dynamic_shared_properties,
                   alternative_, panic_, use_count, local, slocal, halted,
                   calls, last, lock, manager_lock, instance>>

\* The wrapper returns without a call of MXFFICallArgv_destructor after it:
\* the caller goes on with its next operation.
ffi_return_without_destructor(th) ==
    /\ ~halted /\ OutsideRegistry /\ pc[th] = "ffi_return"
    /\ call' = [call EXCEPT ![th].held = NULL]
    /\ pc' = [pc EXCEPT ![th] = "idle"]
    /\ UNCHANGED <<constructed, dtor_runs, class_of, managed, populations,
                   dynamic_owned_properties, dynamic_shared_properties,
                   alternative_, panic_, use_count, local, slocal, halted,
                   calls, last, lock, manager_lock, instance>>

\* The wrapper returns, keeping no copy of the pointer, and the next thing
\* the generated code does is call MXFFICallArgv_destructor on the object.
ffi_return(th) ==
    /\ ~halted /\ OutsideRegistry /\ pc[th] = "ffi_return"
    /\ call' = [call EXCEPT ![th].held = NULL, ![th].ret = call[th].arg]
    /\ pc' = [pc EXCEPT ![th] = "tmp_dtor_lock"]
    /\ UNCHANGED <<constructed, dtor_runs, class_of, managed, populations,
                   dynamic_owned_properties, dynamic_shared_properties,
                   alternative_, panic_, use_count, local, slocal, halted,
                   calls, last, lock, manager_lock, instance>>

\* Threads running generated code that makes variadic foreign calls.
NextForeign ==
    \E th \in Threads :
        \/ \E argv \in SUBSET Obj : thread_variadic_call(th, argv)
        \/ ctor_lock(th)
        \/ ctor_insert(th)
        \/ ffi_call(th)
        \/ ffi_wrapper(th)
        \/ ffi_return(th)
        \/ dtor_lock(th)
        \/ dtor_erase(th)

SpecForeign == InitThreads /\ [][NextForeign]_vars

PropertyOps == {"register", "unregister", "refer"}

\* ------------------------------------------------------------ re-entry
\* The value a registration replaces is of a class derived from MXObject
\* whose destructor calls a property function of the object that held it.
\* The destructor body runs before ~MXObject, inside the assignment of
\* register_properties and so under the guard of that call. stack keeps the
\* outer call; the thread is now at the head of the inner one, which for a
\* registration starts with the construction of its argument.
dtor_reenters(th, op) ==
    /\ ~halted /\ OutsideRegistry /\ pc[th] = "dtor_lock"
    /\ call[th].stack = <<>>
    /\ op = "register" =>
          Cardinality(constructed) + Cardinality(PendingCtors) < MaxObj
    /\ call' = [call EXCEPT ![th].op = op, ![th].stack = <<"register">>]
    /\ pc' = [pc EXCEPT ![th] = IF op = "register" THEN "ctor_lock"
                                ELSE "obj_lock"]
    /\ UNCHANGED <<constructed, dtor_runs, class_of, managed, populations,
                   dynamic_owned_properties, dynamic_shared_properties,
                   alternative_, panic_, use_count, local, slocal, halted,
                   calls, last, lock, manager_lock, instance>>

\* Threads making property calls on objects whose values may call back.
NextReentry ==
    \E th \in Threads :
        \/ \E t \in Obj, n \in Names : thread_register_properties(th, t, n)
        \/ \E t \in Obj, n \in Names : thread_unregister_properties(th, t, n)
        \/ \E t \in Obj, n \in Names : thread_refer_property(th, t, n)
        \/ ctor_lock(th)
        \/ ctor_insert(th)
        \/ obj_lock(th)
        \/ thread_assign(th)
        \/ thread_find(th)
        \/ \E caught \in BOOLEAN : thread_at(th, caught)
        \/ dtor_lock(th)
        \/ dtor_erase(th)
        \/ unlock(th)
        \/ \E op \in PropertyOps : dtor_reenters(th, op)

SpecReentry == InitThreads /\ [][NextReentry]_vars

\* ------------------------------------- objects of derived classes
\* { auto e = std::make_unique<MXError>(...); ... } in thread th: the
\* MXObject base constructor runs first.
thread_new_error(th) ==
    /\ Cardinality(constructed) + Cardinality(PendingCtors) < MaxObj
    /\ Begin(th, "new_error", NULL, NoName, "ctor_lock")

\* MXError::MXError after its base: error_type_, message_, alternative_ and
\* panic_ are initialised and the constructor returns.
derived_ctor(th) ==
    /\ ~halted /\ OutsideRegistry /\ pc[th] = "derived_ctor"
    /\ pc' = [pc EXCEPT ![th] = "in_scope"]
    /\ UNCHANGED <<constructed, dtor_runs, class_of, managed, populations,
                   dynamic_owned_properties, dynamic_shared_properties,
                   alternative_, panic_, use_count, local, slocal, halted,
                   calls, last, call, lock, manager_lock, instance>>

\* The handle goes out of scope: MXError::~MXError runs and the members of
\* MXError are destroyed; ~MXObject comes next.
derived_dtor(th) ==
    /\ ~halted /\ OutsideRegistry /\ pc[th] = "in_scope"
    /\ call' = [call EXCEPT ![th].ret = call[th].arg]
    /\ pc' = [pc EXCEPT ![th] = "tmp_dtor_lock"]
    /\ UNCHANGED <<constructed, dtor_runs, class_of, managed, populations,
                   dynamic_owned_properties, dynamic_shared_properties,
                   alternative_, panic_, use_count, local, slocal, halted,
                   calls, last, lock, manager_lock, instance>>

\* Threads constructing and destroying MXError objects while others dump.
NextLifecycle ==
    \E th \in Threads :
        \/ thread_new_error(th)
        \/ ctor_lock(th)
        \/ ctor_insert(th)
        \/ derived_ctor(th)
        \/ derived_dtor(th)
        \/ dtor_lock(th)
        \/ dtor_erase(th)
        \/ thread_repr(th)
        \/ repr_lock(th)
        \/ repr_visit(th)
        \/ repr_return(th)

SpecLifecycle == InitThreads /\ [][NextLifecycle]_vars

\* ------------------------------------------------------------- borrows
\* The reference refer_property returned still designates the entry it was
\* taken from, and that entry still holds the object it held then.
BorrowAttached(th) ==
    /\ call[th].obj \in Live
    /\ call[th].name \in DOMAIN dynamic_owned_properties[call[th].obj]
    /\ dynamic_owned_properties[call[th].obj][call[th].name] = call[th].ret
    /\ call[th].ret \in Live

\* The caller of refer_property uses what it was given, some time after
\* the call has returned and its guard is gone: borrow->repr() or the like.
use_borrow(th) ==
    /\ ~halted /\ OutsideRegistry /\ pc[th] = "idle"
    /\ call[th].op = "refer" /\ call[th].found /\ call[th].deref = "none"
    /\ call' = [call EXCEPT ![th].deref = IF BorrowAttached(th) THEN "valid"
                                          ELSE "dangling"]
    /\ UNCHANGED <<constructed, dtor_runs, class_of, managed, populations,
                   dynamic_owned_properties, dynamic_shared_properties,
                   alternative_, panic_, use_count, local, slocal, halted,
                   calls, last, pc, lock, manager_lock, instance>>

\* Threads calling the property functions, with callers that use the
\* borrows they get.
NextBorrow ==
    \/ NextThreads
    \/ \E th \in Threads : use_borrow(th)

SpecBorrow == InitThreads /\ [][NextBorrow]_vars

\* ---------------------------------------------------- dispatch protocol
Ops == {"add", "sub", "div"}
Operands == [cls : {"MXInteger", "MXString"}, val : 0..MaxVal]

Success(cls, payload) ==
    [ok |-> TRUE, cls |-> cls, payload |-> payload, category |-> "none"]
ErrorValue(category) ==
    [ok |-> FALSE, cls |-> "MXError", payload |-> 0, category |-> category]

\* MXInteger's type-specific operations: TypeError unless the other operand
\* is an integer.
integer_op(op, lhs, rhs) ==
    IF rhs.cls # "MXInteger" THEN ErrorValue("TypeError")
    ELSE CASE op = "add" -> Success("MXInteger", lhs.val + rhs.val)
           [] op = "sub" -> Success("MXInteger", lhs.val - rhs.val)
           [] op = "div" -> IF rhs.val = 0 THEN ErrorValue("ZeroDivisionError")
                            ELSE Success("MXInteger", lhs.val \div rhs.val)

\* MXString's type-specific operations: concatenation only; a string is
\* written as the number its digits spell.
string_op(op, lhs, rhs) ==
    IF rhs.cls # "MXString" \/ op # "add" THEN ErrorValue("TypeError")
    ELSE Success("MXString", lhs.val * 10 + rhs.val)

\* Static path: the direct call <type>_<op>(lhs, rhs) the compiler emits
\* for the statically known type of the left operand.
static_path(op, lhs, rhs) ==
    IF lhs.cls = "MXInteger" THEN integer_op(op, lhs, rhs)
    ELSE string_op(op, lhs, rhs)

\* Dynamic path: the generic dispatcher op_<name>(lhs, rhs) inspects both
\* operands' TypeInfo, answers a mismatch itself and otherwise forwards to
\* the matching type-specific operation.
dynamic_path_other_category(op, lhs, rhs) ==
    IF lhs.cls # rhs.cls THEN ErrorValue("ValueError")
    ELSE IF lhs.cls = "MXInteger" THEN integer_op(op, lhs, rhs)
    ELSE IF op = "add" THEN string_op(op, lhs, rhs)
    ELSE ErrorValue("ValueError")

dynamic_path(op, lhs, rhs) ==
    IF lhs.cls # rhs.cls THEN ErrorValue("TypeError")
    ELSE IF lhs.cls = "MXInteger" THEN integer_op(op, lhs, rhs)
    ELSE IF op = "add" THEN string_op(op, lhs, rhs)
    ELSE ErrorValue("TypeError")

\* One call site compiled both ways and run on the same operands.
CallBothPaths(op, lhs, rhs) ==
    /\ Tick /\ ~halted /\ SingleThread
    /\ last' = [NoCall EXCEPT !.op = "dispatch", !.name = op,
                              !.lhs = lhs, !.rhs = rhs,
                              !.static_result = static_path(op, lhs, rhs),
                              !.dynamic_result = dynamic_path(op, lhs, rhs)]
    /\ UNCHANGED <<constructed, dtor_runs, class_of, managed, populations,
                   dynamic_owned_properties, dynamic_shared_properties,
                   alternative_, panic_, use_count, local, slocal, halted>>

NextDispatch == \E op \in Ops, lhs \in Operands, rhs \in Operands :
                    CallBothPaths(op, lhs, rhs)

SpecDispatch == Init /\ [][NextDispatch]_vars

\* ------------------------------------------------------------ properties
Dead == {o \in constructed : dtor_runs[o] > 0}

\* The Exclusive holders of o: callers' variables, owned map entries and
\* alternative_ members.
ExclusiveHolders(o) ==
    {<<"local", h, NoName>> : h \in {k \in Locals : local[k] = o}}
    \cup {<<"alt", p, NoName>> : p \in {q \in Obj : alternative_[q] = o}}
    \cup UNION {{<<"prop", p, n>> :
                    n \in {m \in DOMAIN dynamic_owned_properties[p] :
                              dynamic_owned_properties[p][m] = o}} : p \in Obj}

\* The Shared handles to o: callers' variables and shared map entries.
SharedHandles(o) ==
    {<<"slocal", s, NoName>> : s \in {k \in SLocals : slocal[k] = o}}
    \cup UNION {{<<"prop", p, n>> :
                    n \in {m \in DOMAIN dynamic_shared_properties[p] :
                              dynamic_shared_properties[p][m] = o}} : p \in Obj}

\* C1: the Population Tracker's set is exactly the set of objects that have
\* been constructed and not yet destroyed, whatever destroyed them.
PopulationTracksLive == populations = Live

\* C1 witness: a single release has destroyed an owner together with the
\* object it owned (every other call so far was a construction), while
\* another object is still live and tracked.
PopulationCascadeReached ==
    /\ Cardinality(Dead) >= 2
    /\ Live # {}
    /\ calls = Cardinality(constructed) + 1

\* C2: an object held by Shared handles has run its destructor exactly once
\* if its count is zero and not at all otherwise, and its count is the
\* number of Shared handles to it, those stored as properties included.
SharedDestroyedExactlyAtZero ==
    \A o \in constructed :
        managed[o] = "shared" =>
            /\ use_count[o] = Cardinality(SharedHandles(o))
            /\ dtor_runs[o] = (IF use_count[o] = 0 THEN 1 ELSE 0)

\* C2 witness: replacing a Shared property released the last handle to the
\* object it held, which was destroyed there.
SharedDestroyedAtReplaceReached ==
    /\ last.op = "register_shared"
    /\ last.prev # NULL /\ last.prev # last.val
    /\ dtor_runs[last.prev] = 1

\* C3: a live exclusively owned object has exactly one Exclusive holder and
\* a destroyed one has none; a move, register_properties or
\* unregister_properties leaves the source empty and the destination
\* holding the object.
ExclusiveSoleHolder ==
    /\ \A o \in constructed :
          managed[o] = "owned" =>
              Cardinality(ExclusiveHolders(o)) = (IF o \in Live THEN 1 ELSE 0)
    /\ last.op \in {"move", "register_owned"} => local[last.src] = NULL
    /\ last.op = "register_owned" /\ last.obj \in Live =>
          <<"prop", last.obj, last.name>> \in ExclusiveHolders(last.val)
    /\ last.op = "unregister" /\ last.ok =>
          /\ last.name \notin DOMAIN dynamic_owned_properties[last.obj]
          /\ local[last.src] = last.val

\* C3 witness: unregister_properties has handed a registered object back.
ExclusiveHandedBackReached ==
    last.op = "unregister" /\ last.ok /\ last.val # NULL

\* C8: after an Owned registration under a name that held a, the name
\* refers to the new value b, and a has been destroyed exactly once and is
\* out of the Population Tracker.
OwnedReplaceReleasesPrior ==
    last.op = "register_owned" /\ last.ok /\ last.prev # NULL =>
        /\ at(dynamic_owned_properties[last.obj], last.name)
               = [found |-> TRUE, val |-> last.val]
        /\ dtor_runs[last.prev] = 1
        /\ last.prev \notin populations
        /\ last.val \in Live

\* C8 witness: an Owned property has been replaced by another object.
OwnedReplaceReached ==
    last.op = "register_owned" /\ last.ok /\ last.prev # NULL
        /\ last.val # NULL /\ last.val # last.prev

\* C9: no name is attached to an object under both kinds at once.
NamesUniqueAcrossKinds ==
    \A o \in Live :
        DOMAIN dynamic_owned_properties[o]
            \cap DOMAIN dynamic_shared_properties[o] = {}

\* C10: refer_property succeeds exactly when the name is attached to the
\* object by a registration of either kind.
ReferSucceedsIffAttached ==
    last.op = "refer_property" =>
        (last.ok <=> last.name \in DOMAIN dynamic_owned_properties[last.obj]
                                   \cup DOMAIN dynamic_shared_properties[last.obj])

\* C11: refer_property of a name that is not attached reports a lookup
\* error to its caller: the object's lock is free again and the process
\* goes on.
ReferAbsentIsReported ==
    last.op = "refer_property" /\ ~last.ok =>
        ~halted /\ lock[last.obj] = NoThread

ManagerCalls == {"manager_register", "manager_unregister", "dump"}

\* C13: register_object of an object already in populations, and
\* unregister_object of one that is not in it, leave populations as it was,
\* and neither ends the process; otherwise the set gains or loses exactly
\* that object.
ManagerIdempotent ==
    [][calls' # calls /\ last'.op \in {"manager_register", "manager_unregister"} =>
        LET o == last'.obj
        IN  /\ ~halted'
            /\ last'.op = "manager_register" =>
                   /\ o \in populations => populations' = populations
                   /\ o # NULL => populations' = populations \cup {o}
            /\ last'.op = "manager_unregister" =>
                   /\ o \notin populations => populations' = populations
                   /\ populations' = populations \ {o}]_vars

\* C13 witness: unregister_object has been called on an object right after
\* an unregister_object of that same object, and found it gone.
SecondManagerUnregisterReached ==
    /\ last.op = "manager_unregister" /\ ~last.ok
    /\ last.obj # NULL /\ last.prev = last.obj
    /\ populations # {}

\* C14: register_object, unregister_object and the dump change no object,
\* no handle and no count: objects constructed and destroyed, their
\* classes, property maps, alternative_ members, use counts and the
\* callers' variables are what they were, and the dump leaves populations
\* as it was too.
ManagerOnlyObserves ==
    [][calls' # calls /\ last'.op \in ManagerCalls =>
        /\ UNCHANGED <<constructed, dtor_runs, class_of, managed,
                       dynamic_owned_properties, dynamic_shared_properties,
                       alternative_, panic_, use_count, local, slocal, halted>>
        /\ last'.op = "dump" => populations' = populations]_vars

\* C14 witness: unregister_object has been called directly on a tracked
\* object that a Shared handle holds, and the object is still live with
\* its count.
ManagerCallOnHeldReached ==
    /\ last.op = "manager_unregister" /\ last.ok
    /\ last.obj \in Live
    /\ managed[last.obj] = "shared" /\ use_count[last.obj] = 2

\* th is in a property call, between taking the object's lock and
\* releasing it.
InsideLock(th) ==
    /\ call[th].op \in PropertyOps
    /\ pc[th] \in {"assign", "find", "at", "dtor_lock", "dtor_erase", "unlock"}

\* th is in a property call, from its wait for the object's lock on.
InProperty(th) == InsideLock(th) \/ pc[th] = "obj_lock"

\* th, in a property call, waits for a mutex that by, in a property call,
\* holds.
BlockedBy(th, by) ==
    /\ th # by /\ InProperty(th) /\ InProperty(by)
    /\ \/ pc[th] = "obj_lock" /\ lock[call[th].obj] = by
       \/ pc[th] = "dtor_lock" /\ manager_lock = by

\* Every map access of a property call is made by the holder of the
\* object's lock, so no two calls are at the maps of one object together.
MapAccessUnderLock == \A th \in Threads : InsideLock(th) => lock[call[th].obj] = th

\* C15, as stated: property calls on one object are serialized by its
\* lock, and a property call never waits for a property call on another
\* object.
PropertyCallsNeverBlockAcrossObjects ==
    /\ MapAccessUnderLock
    /\ \A th, by \in Threads :
           BlockedBy(th, by) => call[th].obj = call[by].obj

\* C15, amended: property calls on one object are serialized by its lock;
\* an object's lock is held only by a call on that object, so no call
\* waits for the lock of another object; a call waits for a call on
\* another object only at the manager's lock, when it has to destroy the
\* value its registration replaced.
PropertyCallsSerialized ==
    /\ MapAccessUnderLock
    /\ \A o \in Obj : lock[o] # NoThread =>
           call[lock[o]].obj = o /\ InsideLock(lock[o])
    /\ \A th, by \in Threads :
           BlockedBy(th, by) /\ call[th].obj # call[by].obj =>
               /\ pc[th] = "dtor_lock" /\ call[th].op = "register"
               /\ pc[by] = "dtor_erase" /\ call[by].op = "register"

\* C15 witness: one thread is at the owned map of an object, inside its
\* lock, while the other waits for that lock to call on the same object.
SameObjectWaitReached ==
    \E th, by \in Threads :
        /\ BlockedBy(th, by) /\ call[th].obj = call[by].obj
        /\ pc[by] \in {"assign", "find", "at"}

\* C16: while the dump walks the set nothing is inserted or erased, so
\* populations stays what it was when the dump took the lock, and the
\* objects the finished dump lists are exactly that set.
DumpIsSnapshot ==
    \A th \in Threads :
        call[th].op = "dump" =>
            /\ pc[th] = "repr_visit" =>
                   /\ manager_lock = th
                   /\ populations = call[th].snapshot
                   /\ call[th].seen \subseteq call[th].snapshot
            /\ pc[th] = "idle" => call[th].seen = call[th].snapshot

\* C16 witness: the dump is part-way through the set while another thread
\* waits at the manager's lock to register a new object or to unregister
\* one that is being destroyed.
DumpDuringChurnReached ==
    \E th, other \in Threads :
        /\ call[th].op = "dump" /\ pc[th] = "repr_visit"
        /\ call[th].seen # {} /\ call[th].seen # call[th].snapshot
        /\ pc[other] \in {"ctor_lock", "dtor_lock", "tmp_dtor_lock"}

\* C17: each static local is constructed at most once, by the first call
\* of its accessor; once constructed it holds the name and parent of its
\* initializer and is never written again, and every call that has
\* returned has returned the address of that constructed node.
RttiBuiltOnce ==
    /\ [](/\ \A c \in RttiClasses :
              /\ instance[c].built <= 1
              /\ (instance[c].guard = "done") = (instance[c].built = 1)
              /\ instance[c].guard = "done" =>
                     /\ instance[c].name = rtti_name(get_rtti(c))
                     /\ instance[c].parent = parent(get_rtti(c))
          /\ \A th \in Threads :
              call[th].op = "get_rtti" /\ pc[th] = "idle" =>
                  /\ call[th].rtti = get_rtti(call[th].name)
                  /\ instance[call[th].name].guard = "done")
    /\ [][\A c \in RttiClasses :
             instance[c].guard = "done" => instance'[c] = instance[c]]_vars

\* C17 witness: two first calls of one accessor have raced: one thread is
\* constructing the static local while the other waits at its declaration.
RacingFirstCallsReached ==
    \E th, other \in Threads :
        /\ th # other
        /\ pc[th] = "rtti_construct" /\ pc[other] = "rtti_enter"
        /\ Head(call[th].stack) = Head(call[other].stack)
        /\ instance[Head(call[th].stack)].by = th

\* C18: of the nodes the runtime has constructed only MXObject's has a
\* null parent, and every other one reaches MXObject's along parent.
SingleRoot ==
    \A c \in RttiClasses :
        instance[c].guard = "done" /\ c # "MXObject" =>
            /\ instance[c].parent # NoRtti
            /\ RttiObject \in Ancestry(get_rtti(c))

\* C19: a node that only shares its name with the type of an object, or
\* with an ancestor of that type, is another node, and is_instance_of
\* against it is false.
TypeIdentityIsNode ==
    last.op = "is_instance_of" =>
        \A n \in Ancestry(get_rtti(class_of[last.obj])) :
            rtti_name(n) = rtti_name(last.rtti) /\ n # last.rtti =>
                ~same_node(n, last.rtti) /\ ~last.ok

\* C19 witness: an MXError has been tested against the caller's node named
\* "MXError", whose parent is MXObject's node like that of MXError's own.
TwinTestedReached ==
    /\ last.op = "is_instance_of" /\ last.rtti = RttiErrorTwin
    /\ class_of[last.obj] = "MXError"
    /\ rtti_name(last.rtti) = rtti_name(get_rtti("MXError"))
    /\ parent(last.rtti) = parent(get_rtti("MXError"))

\* C20: equals of MXObject is true exactly when the argument holds the
\* object itself; the call constructs nothing, so no MXError comes of it,
\* and it does not end the process.
EqualsIsIdentity ==
    [][calls' # calls /\ last'.op = "equals" =>
        /\ last'.ok = (last'.val = last'.obj)
        /\ (last'.val # NULL /\ class_of[last'.val] # class_of[last'.obj]) =>
               ~last'.ok
        /\ constructed' = constructed
        /\ ~halted']_vars

\* C20 witness: equals has been called on two distinct live objects of one
\* class, neither with any property or member set, and returned false.
EqualsOnLookalikesReached ==
    /\ last.op = "equals" /\ ~last.ok
    /\ last.val # NULL /\ last.val # last.obj
    /\ {last.val, last.obj} \subseteq Live
    /\ class_of[last.val] = "MXObject" /\ class_of[last.obj] = "MXObject"

\* C21: repr() on an object whose class does not override it returns the
\* name held by the TypeInfo of the class the object was constructed as;
\* where that class declares no TypeInfo, the result is at least not the
\* name of an ancestor's TypeInfo.
DefaultReprNamesConstructedType ==
    last.op = "repr" /\ class_of[last.obj] # "MXError" =>
        IF class_of[last.obj] \in RttiClasses
        THEN last.str = rtti_name(get_rtti(class_of[last.obj]))
        ELSE last.str # rtti_name(get_rtti("MXObject"))

\* C30: register_properties(name, MXObjectOwned) returns an empty handle:
\* neither the value it stored nor the value it replaced. The value is in
\* the store, the caller's variable is empty, and a replaced value has been
\* destroyed rather than handed back.
RegisterOwnedReturnsEmpty ==
    last.op = "register_owned" =>
        /\ last.ret = NULL
        /\ last.ret \notin {last.val, last.prev} \ {NULL}
        /\ local[last.src] = NULL
        /\ last.name \in DOMAIN dynamic_owned_properties[last.obj]
        /\ dynamic_owned_properties[last.obj][last.name] = last.val
        /\ last.ok => /\ dtor_runs[last.prev] = 1
                      /\ last.prev \notin populations

RegisterOwnedReplacingReached ==
    /\ last.op = "register_owned" /\ last.ok
    /\ last.prev # NULL /\ last.val # NULL /\ last.ret = NULL
    /\ dtor_runs[last.prev] = 1

\* The objects whose destructor runs in the step.
DestroyedInStep == {o \in Obj : dtor_runs[o] = 0 /\ dtor_runs'[o] > 0}

\* C24: in every step that destroys an object, the object's destructor runs
\* once and it leaves the Population Tracker; each sub-object it held as an
\* owned property (or as the alternative_ member) is destroyed in the same
\* step, once; each sub-object it held as a shared property has its count
\* lowered by exactly the number of handles to it that went away, one per
\* destroyed holder, and is destroyed in that step exactly when the count
\* reaches zero.
DestructionCascades ==
    [][/\ \A o \in Obj : dtor_runs'[o] <= 1
       /\ \A o \in DestroyedInStep :
            /\ dtor_runs'[o] = 1
            /\ o \notin populations'
            /\ \A c \in (Range(dynamic_owned_properties[o])
                         \cup {alternative_[o]}) \ {NULL} :
                    c \in DestroyedInStep /\ c \notin populations'
            /\ \A c \in Range(dynamic_shared_properties[o]) \ {NULL} :
                    /\ use_count[c] >= 1
                    /\ use_count[c] - use_count'[c] =
                           Cardinality(SharedHandles(c))
                           - Cardinality(SharedHandles(c)')
                    /\ c \in DestroyedInStep <=> use_count'[c] = 0
                    /\ c \in DestroyedInStep => c \notin populations']_vars

\* C24 witness: releasing the last Exclusive holder of an object destroyed
\* it and, with it, a sub-object held as a shared property whose count this
\* brought to zero.
SharedSubObjectDestroyedReached ==
    /\ last.op = "release_owned" /\ last.obj \in Dead
    /\ \E c \in last.seen : /\ managed[c] = "shared"
                            /\ use_count[c] = 0 /\ dtor_runs[c] = 1
                            /\ c \notin populations

\* C22: the registry takes no part in type checks. Every step of threads
\* registering, unregistering and checking types leaves the answer of
\* is_instance_of for every object and target, and every TypeInfo node, as
\* it was; and each answer a check gave is the one the parent chain alone
\* gives, whatever the registry held at the time.
RegistryOutsideTypeChecks ==
    /\ [](\A th \in Threads :
            call[th].op = "is_instance_of" =>
                call[th].found <=>
                    \E t \in Ancestry(rtti_via_base_handle(call[th].obj)) :
                        same_node(t, call[th].rtti))
    /\ [][/\ \A o \in Obj, t \in TypeNodes :
                is_instance_of(o, t)' = is_instance_of(o, t)
          /\ instance' = instance]_vars

\* C22 witness: a check against a type the registry holds has answered no,
\* and one against a type it does not hold has answered yes.
RegisteredTypeCheckedReached ==
    /\ type_manager.applied # <<>>
    /\ \E th \in Threads :
          /\ call[th].op = "is_instance_of" /\ ~call[th].found
          /\ call[th].rtti \in type_manager.type_infos
    /\ \E th \in Threads :
          /\ call[th].op = "is_instance_of" /\ call[th].found
          /\ call[th].rtti \notin type_manager.type_infos

\* The set after the calls of a sequence, applied one at a time.
RECURSIVE OneAtATime(_, _)
OneAtATime(types, ops) ==
    IF ops = <<>> THEN types
    ELSE OneAtATime(IF Head(ops).op = "register_newtype"
                    THEN types \cup {Head(ops).rtti}
                    ELSE types \ {Head(ops).rtti}, Tail(ops))

\* The calls on the registry that have returned.
RegistryReturned ==
    {th \in Threads : /\ pc[th] = "idle"
                      /\ call[th].op \in {"register_newtype",
                                          "unregister_type"}}

\* The calls on the registry that have taken effect, in order.
RegistryOrder == type_manager.applied

\* C23: the registered set is what the calls that have taken effect give
\* when applied one at a time in the order listed in applied; that order
\* holds every call once, keeps each thread's calls in the order the thread
\* made them and includes every call that has returned. A registration of
\* a registered type and an unregistration of an unregistered one leave the
\* set as it was.
RegistryLinearizable ==
    /\ [](/\ type_manager.type_infos = OneAtATime({}, RegistryOrder)
          /\ \A i, j \in DOMAIN RegistryOrder :
                /\ i < j => RegistryOrder[i].ticket # RegistryOrder[j].ticket
                /\ i < j /\ RegistryOrder[i].by = RegistryOrder[j].by
                      => RegistryOrder[i].ticket < RegistryOrder[j].ticket
          /\ \A th \in RegistryReturned :
                \E i \in DOMAIN RegistryOrder : /\ RegistryOrder[i].ticket = call[th].ticket
                                      /\ RegistryOrder[i].by = th
                                      /\ RegistryOrder[i].op = call[th].op
                                      /\ RegistryOrder[i].rtti = call[th].rtti)
    /\ [][\A th \in Threads :
            pc[th] = "type_write" /\ pc'[th] = "idle" =>
                LET was == type_manager.type_infos
                    now == type_manager'.type_infos
                    obj == call[th].rtti
                IN  IF call[th].op = "register_newtype"
                    THEN now = was \cup {obj} /\ (obj \in was => now = was)
                    ELSE now = was \ {obj} /\ (obj \notin was => now = was)]_vars

\* C23 witness: a thread is waiting to register a type that is already
\* registered while another thread is inside a call on the registry.
RegistryContendedReached ==
    \E th, other \in Threads :
        /\ th # other
        /\ pc[th] = "type_lock" /\ call[th].op = "register_newtype"
        /\ call[th].rtti \in type_manager.type_infos
        /\ type_manager.lock = other /\ pc[other] = "type_write"

\* The variadic foreign calls the threads are making or have made last.
VariadicCalls == {th \in Threads : call[th].op = "variadic"}

StepInsideCall ==
    \E th \in Threads :
        \/ ctor_lock(th)
        \/ ctor_insert(th)
        \/ obj_lock(th)
        \/ thread_assign(th)
        \/ thread_find(th)
        \/ \E caught \in BOOLEAN : thread_at(th, caught)
        \/ dtor_lock(th)
        \/ dtor_erase(th)
        \/ unlock(th)
        \/ repr_lock(th)
        \/ repr_visit(th)
        \/ repr_return(th)

\* C26: with threads making property calls (a registration constructs its
\* argument and destroys the value it replaces under the object's lock),
\* and dumps, in any interleaving, whenever some call is in progress and the
\* process has not been terminated, some thread inside a call can take its
\* next step: the threads never all wait for each other.
LockLevelsNeverDeadlock ==
    (~halted /\ \E th \in Threads : pc[th] # "idle") => ENABLED StepInsideCall

\* C26 witness: a registration holds its object's lock and waits, inside
\* it, for the tracker's lock, which a dump holds while it calls repr.
NestedLockWaitReached ==
    \E a, b \in Threads :
        /\ pc[a] = "dtor_lock" /\ lock[call[a].obj] = a
        /\ manager_lock = b /\ call[b].op = "dump" /\ pc[b] = "repr_visit"
        /\ call[b].seen # {}

\* th is in a call made from inside its own registration on the same
\* object, by the destructor of the value that registration replaces.
Reentered(th) == call[th].stack = <<"register">>

\* C27: the value a registration replaces is destroyed while the
\* registration still holds the object's lock; a property call that the
\* destruction makes on the same object never gets that lock, so it never
\* goes past the head of the function, the destruction never completes and
\* the outer registration never returns or releases the lock.
ReentryBlocksForever ==
    \A th \in Threads :
        Reentered(th) =>
            /\ lock[call[th].obj] = th
            /\ call[th].old \in Live /\ call[th].old \in populations
            /\ pc[th] \in {"ctor_lock", "ctor_insert", "obj_lock"}

\* C27 witness: a thread waits at the head of a re-entrant call for the
\* lock it holds itself, and the other thread waits for the same lock.
ReentryWaitReached ==
    \E th, other \in Threads :
        /\ th # other /\ Reentered(th) /\ pc[th] = "obj_lock"
        /\ lock[call[th].obj] = th
        /\ pc[other] = "obj_lock" /\ call[other].obj = call[th].obj
        /\ ~ENABLED (obj_lock(th) \/ obj_lock(other))

\* C28: every object on which a dump has called repr() was complete at the
\* time of the call: its most-derived constructor had returned and its
\* destructor had not been entered.
DumpSeesOnlyCompleteObjects ==
    \A th \in Threads : call[th].op = "dump" => call[th].raw = {}

\* C29: no borrow handed out by refer_property is dereferenced after the
\* object it refers to has been detached from its entry or destroyed.
BorrowNeverDangles ==
    \A th \in Threads : call[th].deref # "dangling"

\* C4: is_instance_of on an object seen through a base handle is true
\* exactly for the type it was constructed with and that type's ancestors.
IsInstanceOfMatchesAncestry ==
    last.op = "is_instance_of" =>
        (last.ok <=> last.rtti \in Ancestry(get_rtti(class_of[last.obj])))

\* C5: no ErrorValue with its panic flag set is live while the process runs.
PanicHaltsInConstruction ==
    \A o \in Live : class_of[o] = "MXError" /\ panic_[o] => halted

\* C6: the caller's test of a returned object against the error type is
\* true exactly when the object is an ErrorValue (built with panic=false).
CallerCheckClassifies ==
    last.op = "caller_check"
        /\ ~(class_of[last.obj] = "MXError" /\ panic_[last.obj]) =>
        (last.ok <=> class_of[last.obj] = "MXError")
====
